---- MODULE Spec2Model ----
(***************************************************************************)
(* Model of the PGP decryption Lambda of src/index.js: exports.handler     *)
(* and the helpers it awaits (getPGPPrivateKey, listEncryptedFiles,        *)
(* downloadFileFromS3, decryptFile, uploadDecryptedFile).                  *)
(*                                                                         *)
(* JavaScript strings are sequences of one-character strings, so that      *)
(* split('/'), endsWith('.gpg') and slice(0, -4) are computed as the code  *)
(* computes them.  The JavaScript value undefined is the one-element       *)
(* sequence Undefined, which is no string.  Error messages are TLA+        *)
(* strings: the code only copies them.                                     *)
(***************************************************************************)
EXTENDS Integers, Sequences, FiniteSets, TLC

\* Largest number of objects the bucket holds when the invocation starts.
MaxFiles == 2

----------------------------------------------------------------------------
\* JavaScript values

Undefined == <<"undefined">>
Null == <<"null">>

\* ToBoolean of a string, undefined or null: undefined, null and '' are falsy.
Truthy(v) == v # Undefined /\ v # Null /\ v # <<>>

\* a || b
Or(a, b) == IF Truthy(a) THEN a ELSE b

\* String.prototype.endsWith
EndsWith(s, suffix) ==
  /\ Len(s) >= Len(suffix)
  /\ SubSeq(s, Len(s) - Len(suffix) + 1, Len(s)) = suffix

\* String.prototype.startsWith (the storage service's Prefix filter)
StartsWith(s, prefix) ==
  /\ Len(s) >= Len(prefix)
  /\ SubSeq(s, 1, Len(prefix)) = prefix

\* s.slice(0, -n)
SliceOffEnd(s, n) == IF Len(s) >= n THEN SubSeq(s, 1, Len(s) - n) ELSE <<>>

\* s.split('/').pop(): what follows the last '/', the whole of s without one.
RECURSIVE LastSegment(_)
LastSegment(s) ==
  IF s = <<>> THEN <<>>
  ELSE IF s[Len(s)] = "/" THEN <<>>
  ELSE LastSegment(SubSeq(s, 1, Len(s) - 1)) \o <<s[Len(s)]>>

Slash == <<"/">>
GpgSuffix == <<".", "g", "p", "g">>
DecryptedSuffix == <<".", "d", "e", "c", "r", "y", "p", "t", "e", "d">>
DefaultBucket ==
  <<"s","f","t","p","-","f","i","l","e","-","s","y","n","c","-","v","i","v","i","e","n">>
DefaultDecryptedPrefix ==
  <<"d","e","c","r","y","p","t","_","f","i","l","e","s","/">>
DefaultKeyName == <<"p","g","p","-","k","e","y">>

\* The characters of the keys, in code-unit order (the storage service lists
\* keys in ascending UTF-8 binary order).
Alphabet ==
  <<"-", ".", "/", "_", "a", "b", "c", "d", "e", "f", "g", "h", "i", "j", "k",
    "l", "m", "n", "o", "p", "q", "r", "s", "t", "u", "v", "w", "x", "y", "z">>

CharRank(c) == CHOOSE i \in 1..Len(Alphabet) : Alphabet[i] = c

RECURSIVE LexLess(_, _)
LexLess(s, t) ==
  IF t = <<>> THEN FALSE
  ELSE IF s = <<>> THEN TRUE
  ELSE IF s[1] = t[1] THEN LexLess(Tail(s), Tail(t))
  ELSE CharRank(s[1]) < CharRank(t[1])

----------------------------------------------------------------------------
\* The collaborators: execution environment, secrets store, object storage

\* Objects the bucket may hold when the invocation starts
\* ({Key, Size, LastModified} as listObjectsV2 reports them).
AllObjects ==
  { [Key |-> <<"i","n","/">>,                          Size |-> 0,  LastModified |-> "t1"],
    [Key |-> <<"i","n","/","a",".","g","p","g">>,         Size |-> 10, LastModified |-> "t2"],
    [Key |-> <<"i","n","/","b">>,                         Size |-> 20, LastModified |-> "t3"],
    [Key |-> <<"i","n","/","s","/","a",".","g","p","g">>, Size |-> 30, LastModified |-> "t4"],
    [Key |-> <<"x",".","g","p","g">>,                     Size |-> 40, LastModified |-> "t5"] }

InitialBuckets == { b \in SUBSET AllObjects : Cardinality(b) <= MaxFiles }

EnvKey == <<"k","e","n","v">>
EnvPass == <<"p","e","n","v">>
SecretKey == <<"k","s","e","c">>
SecretAltKey == <<"k","a","l","t">>
SecretPass == <<"p","s","e","c">>
AltKeyName == <<"a","l","t">>

\* process.env as the handler reads it (lines 181-189).
Envs ==
  [ bucketName      : {Undefined, <<"b","x">>},
    S3_BUCKET_NAME  : {Undefined, <<"b","y">>},
    S3_PREFIX       : {Undefined, <<"i","n","/">>},
    privateKey      : {Undefined, <<>>, EnvKey},
    passphrase      : {Undefined, EnvPass},
    keyName         : {Undefined, AltKeyName},
    decryptedPrefix : {Undefined, <<"o","u","t","/">>} ]

\* JSON.parse(result.SecretString): the fields the code reads, Undefined when
\* the payload lacks the field.
SecretPayloads ==
  [ pgpKey     : {Undefined, SecretKey},
    alt        : {Undefined, SecretAltKey},
    passphrase : {Undefined, SecretPass} ]

\* secretData[keyName]
SecretField(secretData, keyName) ==
  IF keyName = DefaultKeyName THEN secretData.pgpKey
  ELSE IF keyName = AltKeyName THEN secretData.alt
  ELSE Undefined

\* What secretsManager.getSecretValue(...).promise() can do.
SecretResponses ==
  { [kind |-> "rejected", data |-> [pgpKey |-> Undefined, alt |-> Undefined, passphrase |-> Undefined]],
    [kind |-> "binary",   data |-> [pgpKey |-> Undefined, alt |-> Undefined, passphrase |-> Undefined]],
    [kind |-> "notJSON",  data |-> [pgpKey |-> Undefined, alt |-> Undefined, passphrase |-> Undefined]] }
  \cup { [kind |-> "json", data |-> d] : d \in SecretPayloads }

\* An Error: message = prefix + (key) + cause.
Err(prefix, key, cause) == [prefix |-> prefix, key |-> key, cause |-> cause]
NoError == Err("", <<>>, "")

\* The keys of a set of descriptors in ascending order, as a sequence of
\* descriptors (s3.listObjectsV2 Contents).
RECURSIVE SortByKey(_)
SortByKey(objs) ==
  IF objs = {} THEN <<>>
  ELSE LET first == CHOOSE o \in objs : \A p \in objs \ {o} : LexLess(o.Key, p.Key)
       IN  <<first>> \o SortByKey(objs \ {first})

\* The objects of the bucket under Prefix; an undefined or empty Prefix
\* selects every object.
Matching(objs, prefix) ==
  { o \in objs : ~Truthy(prefix) \/ StartsWith(o.Key, prefix) }

\* What s3.listObjectsV2(...).promise() can do on a bucket holding objs: it
\* rejects, or resolves with the matching objects; with nothing matching the
\* response may carry an empty Contents or no Contents at all.
ListResponses(objs, prefix) ==
  { [kind |-> "rejected", hasContents |-> FALSE, Contents |-> <<>>],
    [kind |-> "resolved", hasContents |-> TRUE,
     Contents |-> SortByKey(Matching(objs, prefix))] }
  \cup (IF Matching(objs, prefix) = {}
        THEN { [kind |-> "resolved", hasContents |-> FALSE, Contents |-> <<>>] }
        ELSE {})

\* What the openpgp calls of decryptFile can do: every call resolves ("ok"),
\* or the named call rejects (decryptKey: wrong passphrase; readMessage:
\* corrupted ciphertext; decrypt: wrong key).  decryptKey is only called with
\* a truthy passphrase (line 144).
DecryptOutcomes(passphrase) ==
  {"ok", "readMessage", "decrypt"}
  \cup (IF Truthy(passphrase) THEN {"decryptKey"} ELSE {})

----------------------------------------------------------------------------
\* The helpers of src/index.js, as functions of their arguments and of what
\* the collaborator they await does.  Each returns [ok, ..., error].

\* The default parameter value of line 14: keyName = 'pgp-key'.
KeyNameOrDefault(keyNameArg) ==
  IF keyNameArg = Undefined THEN DefaultKeyName ELSE keyNameArg

\* getPGPPrivateKey without the test of lines 31-33.
GetPGPPrivateKey_NoFieldCheck(keyNameArg, resp) ==
  LET keyName == KeyNameOrDefault(keyNameArg)
      wrap(key, cause) ==
        [ok |-> FALSE, privateKey |-> Undefined, passphrase |-> Undefined,
         error |-> Err("Failed to retrieve PGP private key: ", key, cause)]
  IN  CASE resp.kind = "rejected" -> wrap(<<>>, "getSecretValue rejected")
        [] resp.kind = "binary"   -> wrap(<<>>, "Secret value is not a string")
        [] resp.kind = "notJSON"  -> wrap(<<>>, "JSON.parse SyntaxError")
        [] OTHER ->
             [ok |-> TRUE,
              privateKey |-> SecretField(resp.data, keyName),
              passphrase |-> Or(resp.data.passphrase, Null),
              error |-> NoError]

\* getPGPPrivateKey(secretName, keyName = 'pgp-key')
GetPGPPrivateKey(keyNameArg, resp) ==
  LET keyName == KeyNameOrDefault(keyNameArg)
      wrap(key, cause) ==
        [ok |-> FALSE, privateKey |-> Undefined, passphrase |-> Undefined,
         error |-> Err("Failed to retrieve PGP private key: ", key, cause)]
  IN  CASE resp.kind = "rejected" -> wrap(<<>>, "getSecretValue rejected")
        [] resp.kind = "binary"   -> wrap(<<>>, "Secret value is not a string")
        [] resp.kind = "notJSON"  -> wrap(<<>>, "JSON.parse SyntaxError")
        [] OTHER ->
             IF ~Truthy(SecretField(resp.data, keyName))
             THEN wrap(keyName, "Secret does not contain field")
             ELSE [ok |-> TRUE,
                   privateKey |-> SecretField(resp.data, keyName),
                   passphrase |-> Or(resp.data.passphrase, Null),
                   error |-> NoError]

\* listEncryptedFiles throwing on an empty Contents.
ListEncryptedFiles_EmptyIsError(resp) ==
  IF resp.kind = "resolved" /\ resp.hasContents /\ Len(resp.Contents) > 0
  THEN [ok |-> TRUE, files |-> resp.Contents, error |-> NoError]
  ELSE [ok |-> FALSE, files |-> <<>>,
        error |-> Err("Failed to list files from S3: ", <<>>, "no files")]

\* listEncryptedFiles with a catch that returns [] instead of rethrowing.
ListEncryptedFiles_SwallowsError(resp) ==
  IF resp.kind = "resolved" /\ resp.hasContents
  THEN [ok |-> TRUE, files |-> resp.Contents, error |-> NoError]
  ELSE [ok |-> TRUE, files |-> <<>>, error |-> NoError]

\* listEncryptedFiles(bucketName, prefix): result.Contents.length is read
\* (line 65) before the `|| []` of line 66.
ListEncryptedFiles(resp) ==
  CASE resp.kind = "rejected" ->
         [ok |-> FALSE, files |-> <<>>,
          error |-> Err("Failed to list files from S3: ", <<>>, "listObjectsV2 rejected")]
    [] resp.kind = "resolved" /\ ~resp.hasContents ->
         [ok |-> FALSE, files |-> <<>>,
          error |-> Err("Failed to list files from S3: ", <<>>,
                        "TypeError: Cannot read properties of undefined (reading 'length')")]
    [] OTHER -> [ok |-> TRUE, files |-> resp.Contents, error |-> NoError]

NoData == [form |-> "none", of |-> <<>>]

\* downloadFileFromS3(bucketName, key)
DownloadFileFromS3(key, getOk) ==
  IF getOk
  THEN [ok |-> TRUE, Body |-> [form |-> "cipher", of |-> key], error |-> NoError]
  ELSE [ok |-> FALSE, Body |-> NoData,
        error |-> Err("Failed to download file ", key, "getObject rejected")]

\* decryptFile(encryptedData, privateKeyArmored, passphrase)
DecryptFile(encryptedData, outcome) ==
  IF outcome = "ok"
  THEN [ok |-> TRUE, data |-> [form |-> "plain", of |-> encryptedData.of], error |-> NoError]
  ELSE [ok |-> FALSE, data |-> NoData,
        error |-> Err("Failed to decrypt file: ", <<>>, outcome)]

\* uploadDecryptedFile with its fourth parameter named decryptedPrefix.
UploadScope_BindsDecryptedPrefix(bucketName, key, decryptedContent, encryptedPrefix) ==
  [bucketName |-> bucketName, key |-> key,
   decryptedContent |-> decryptedContent, encryptedPrefix |-> encryptedPrefix,
   decryptedPrefix |-> encryptedPrefix]

\* The identifiers bound inside uploadDecryptedFile: its four parameters
\* (line 104).  The handler's const decryptedPrefix (line 189) is local to
\* the handler and no module-level binding of that name exists.
UploadScope(bucketName, key, decryptedContent, encryptedPrefix) ==
  [bucketName |-> bucketName, key |-> key,
   decryptedContent |-> decryptedContent, encryptedPrefix |-> encryptedPrefix]

\* fileName.endsWith('.gpg') ? fileName.slice(0, -4) : `${fileName}.decrypted`
DecryptedFileName(key) ==
  LET fileName == LastSegment(key)
  IN  IF EndsWith(fileName, GpgSuffix)
      THEN SliceOffEnd(fileName, Len(GpgSuffix))
      ELSE fileName \o DecryptedSuffix

\* uploadDecryptedFile(bucketName, key, decryptedContent, encryptedPrefix):
\* line 109 reads the identifier decryptedPrefix; unbound, the read throws a
\* ReferenceError inside the try, before s3.upload is reached.
\* put: whether s3.upload was called.
UploadDecryptedFile(bucketName, key, decryptedContent, encryptedPrefix, putOk) ==
  LET scope == UploadScope(bucketName, key, decryptedContent, encryptedPrefix)
  IN  IF "decryptedPrefix" \notin DOMAIN scope
      THEN [ok |-> FALSE, put |-> FALSE, Key |-> Undefined,
            error |-> Err("Failed to upload decrypted file: ", <<>>,
                          "ReferenceError: decryptedPrefix is not defined")]
      ELSE LET decryptedKey == scope.decryptedPrefix \o DecryptedFileName(key)
           IN  IF putOk
               THEN [ok |-> TRUE, put |-> TRUE, Key |-> decryptedKey, error |-> NoError]
               ELSE [ok |-> FALSE, put |-> TRUE, Key |-> decryptedKey,
                     error |-> Err("Failed to upload decrypted file: ", <<>>,
                                   "upload rejected")]

----------------------------------------------------------------------------
\* exports.handler (lines 175-301), one action per stretch of code between
\* two awaits.

VARIABLES
  env,            \* process.env
  bucket,         \* the objects of the bucket the handler works on
  pc,             \* where the handler is
  config,         \* the handler's consts of lines 181-189
  pgpPrivateKey,  \* line 203
  pgpPassphrase,  \* line 203
  files,          \* line 223
  idx,            \* position of the for-of loop of line 239 in files
  data,           \* encryptedData, then decryptedData, of the current file
  results,        \* line 236
  response,       \* what the handler returned
  calls,          \* the collaborator calls made so far, in order
  secretResp,     \* what the secrets store answered
  listResp,       \* what the storage service answered to the listing
  fate,           \* what the collaborators did for the file at each position
  run,            \* the number of this invocation on the bucket
  first           \* what the first invocation left behind

vars == <<env, bucket, pc, config, pgpPrivateKey, pgpPassphrase, files, idx,
          data, results, response, calls, secretResp, listResp, fate, run, first>>

NoSecretResponse ==
  [kind |-> "none",
   data |-> [pgpKey |-> Undefined, alt |-> Undefined, passphrase |-> Undefined]]

NoListResponse == [kind |-> "none", hasContents |-> FALSE, Contents |-> <<>>]

NoResponse == [statusCode |-> 0]

NoConfig ==
  [bucketName |-> Undefined, prefix |-> Undefined, keyName |-> Undefined,
   privateKey |-> Undefined, passphrase |-> Undefined,
   decryptedPrefix |-> Undefined]

NoFirstRun == [keys |-> {}, uploads |-> {}, reached |-> {}]

NoFate == [download |-> "unasked", decrypt |-> "unasked", put |-> "unasked"]

Call(op, bucketName, key) ==
  [op |-> op, bucket |-> bucketName, key |-> key,
   privateKey |-> Undefined, passphrase |-> Undefined]

Init ==
  /\ env \in Envs
  /\ bucket \in InitialBuckets
  /\ pc = "start"
  /\ config = NoConfig
  /\ pgpPrivateKey = Undefined
  /\ pgpPassphrase = Undefined
  /\ files = <<>>
  /\ idx = 1
  /\ data = NoData
  /\ results = <<>>
  /\ response = NoResponse
  /\ calls = <<>>
  /\ secretResp = NoSecretResponse
  /\ listResp = NoListResponse
  /\ fate = <<>>
  /\ run = 1
  /\ first = NoFirstRun

\* Line 181 without its default.
BucketName_NoDefault(e) == Or(e.bucketName, e.S3_BUCKET_NAME)

\* Line 181: process.env.bucketName || process.env.S3_BUCKET_NAME || '...'
BucketName(e) == Or(Or(e.bucketName, e.S3_BUCKET_NAME), DefaultBucket)

\* Lines 181-189.
ReadConfig(e) ==
  [bucketName      |-> BucketName(e),
   prefix          |-> e.S3_PREFIX,
   keyName         |-> e.keyName,
   privateKey      |-> e.privateKey,
   passphrase      |-> e.passphrase,
   decryptedPrefix |-> Or(e.decryptedPrefix, DefaultDecryptedPrefix)]

\* The outer catch (lines 290-300).
Failure500(error) ==
  [statusCode |-> 500, error |-> "Internal server error", message |-> error]

\* r => r.error (lines 277-278): the entry has an error field and its
\* message is not the empty string.
HasError(r) == "error" \in DOMAIN r /\ r.error # NoError

\* Lines 258-263.
SuccessEntry(file, uploadResult) ==
  [originalFile |-> file.Key, decryptedFile |-> uploadResult.Key,
   size |-> file.Size, lastModified |-> file.LastModified]

\* The failure entry with an empty message in place of fileError.message.
FailureEntry_EmptyMessage(file, fileError) ==
  [originalFile |-> file.Key, error |-> NoError, status |-> "failed"]

\* Lines 269-273.
FailureEntry(file, fileError) ==
  [originalFile |-> file.Key, error |-> fileError, status |-> "failed"]

\* Configure taking the override key without the override passphrase.
Configure_DropsPassphrase ==
  /\ pc = "start"
  /\ config' = ReadConfig(env)
  /\ IF Truthy(env.privateKey)
     THEN /\ pgpPrivateKey' = env.privateKey
          /\ pgpPassphrase' = Undefined
          /\ pc' = "list"
     ELSE /\ UNCHANGED <<pgpPrivateKey, pgpPassphrase>>
          /\ pc' = "secret"
  /\ UNCHANGED <<env, bucket, files, idx, data, results, response, calls,
                 secretResp, listResp, fate>>
  /\ UNCHANGED <<run, first>>

\* Lines 176-209, 218-220: read the configuration; with a truthy override
\* key, use it and go on to the listing, else go on to the secrets store.
Configure ==
  /\ pc = "start"
  /\ config' = ReadConfig(env)
  /\ IF Truthy(env.privateKey)
     THEN /\ pgpPrivateKey' = env.privateKey
          /\ pgpPassphrase' = env.passphrase
          /\ pc' = "list"
     ELSE /\ UNCHANGED <<pgpPrivateKey, pgpPassphrase>>
          /\ pc' = "secret"
  /\ UNCHANGED <<env, bucket, files, idx, data, results, response, calls,
                 secretResp, listResp, fate>>
  /\ UNCHANGED <<run, first>>

\* Lines 212-216: await getPGPPrivateKey(secretName, keyName).
ResolveSecret ==
  /\ pc = "secret"
  /\ \E resp \in SecretResponses :
       LET secretData == GetPGPPrivateKey(config.keyName, resp)
       IN  /\ secretResp' = resp
           /\ calls' = Append(calls, Call("getSecretValue", Undefined, <<>>))
           /\ IF secretData.ok
              THEN /\ pgpPrivateKey' = secretData.privateKey
                   /\ pgpPassphrase' = secretData.passphrase
                   /\ pc' = "list"
                   /\ UNCHANGED response
              ELSE /\ response' = Failure500(secretData.error)
                   /\ pc' = "done"
                   /\ UNCHANGED <<pgpPrivateKey, pgpPassphrase>>
  /\ UNCHANGED <<env, bucket, config, files, idx, data, results, listResp, fate>>
  /\ UNCHANGED <<run, first>>

\* Lines 223-236: await listEncryptedFiles(bucketName, prefix), the early
\* return on an empty listing, and the new results array.
ListFiles ==
  /\ pc = "list"
  /\ \E resp \in ListResponses(bucket, config.prefix) :
       LET listed == ListEncryptedFiles(resp)
       IN  /\ listResp' = resp
           /\ calls' = Append(calls, Call("listObjectsV2", config.bucketName, config.prefix))
           /\ IF ~listed.ok
              THEN /\ response' = Failure500(listed.error)
                   /\ pc' = "done"
                   /\ UNCHANGED <<files, fate>>
              ELSE /\ files' = listed.files
                   /\ fate' = [i \in 1..Len(listed.files) |-> NoFate]
                   /\ IF Len(listed.files) = 0
                      THEN /\ response' = [statusCode |-> 200,
                                           message |-> "No files found to decrypt",
                                           decryptedFiles |-> <<>>]
                           /\ pc' = "done"
                      ELSE /\ pc' = "file"
                           /\ UNCHANGED response
  /\ idx' = 1
  /\ results' = <<>>
  /\ UNCHANGED <<env, bucket, config, pgpPrivateKey, pgpPassphrase, data, secretResp>>
  /\ UNCHANGED <<run, first>>

\* NextFile without the directory test of lines 244-247.
NextFile_NoDirectorySkip ==
  /\ pc = "file"
  /\ idx <= Len(files)
  /\ pc' = "download"
  /\ UNCHANGED <<env, bucket, config, pgpPrivateKey, pgpPassphrase, files, idx,
                 data, results, response, calls, secretResp, listResp, fate>>
  /\ UNCHANGED <<run, first>>

\* Lines 239-247: the next file of the loop; a key ending in '/' is skipped.
NextFile ==
  /\ pc = "file"
  /\ idx <= Len(files)
  /\ IF EndsWith(files[idx].Key, Slash)
     THEN /\ idx' = idx + 1
          /\ pc' = "file"
     ELSE /\ pc' = "download"
          /\ UNCHANGED idx
  /\ UNCHANGED <<env, bucket, config, pgpPrivateKey, pgpPassphrase, files, data,
                 results, response, calls, secretResp, listResp, fate>>
  /\ UNCHANGED <<run, first>>

\* Download whose catch puts the failure entry at the head of results
\* (unshift for the push of line 269).
Download_FailureUnshifts ==
  /\ pc = "download"
  /\ \E getOk \in BOOLEAN :
       LET got == DownloadFileFromS3(files[idx].Key, getOk)
       IN  /\ fate' = [fate EXCEPT ![idx].download = IF getOk THEN "ok" ELSE "rejected"]
           /\ calls' = Append(calls, Call("getObject", config.bucketName, files[idx].Key))
           /\ IF got.ok
              THEN /\ data' = got.Body
                   /\ pc' = "decrypt"
                   /\ UNCHANGED <<results, idx>>
              ELSE /\ results' = <<FailureEntry(files[idx], got.error)>> \o results
                   /\ idx' = idx + 1
                   /\ pc' = "file"
                   /\ UNCHANGED data
  /\ UNCHANGED <<env, bucket, config, pgpPrivateKey, pgpPassphrase, files, response,
                 secretResp, listResp>>
  /\ UNCHANGED <<run, first>>

\* Download that goes on to the decryption after a failed download.
Download_DecryptsAfterFailure ==
  /\ pc = "download"
  /\ \E getOk \in BOOLEAN :
       LET got == DownloadFileFromS3(files[idx].Key, getOk)
       IN  /\ fate' = [fate EXCEPT ![idx].download = IF getOk THEN "ok" ELSE "rejected"]
           /\ calls' = Append(calls, Call("getObject", config.bucketName, files[idx].Key))
           /\ IF got.ok
              THEN /\ data' = got.Body
                   /\ pc' = "decrypt"
                   /\ UNCHANGED <<results, idx>>
              ELSE /\ data' = NoData
                   /\ pc' = "decrypt"
                   /\ UNCHANGED <<results, idx>>
  /\ UNCHANGED <<env, bucket, config, pgpPrivateKey, pgpPassphrase, files, response,
                 secretResp, listResp>>
  /\ UNCHANGED <<run, first>>

\* Download that calls getObject a second time after a first rejection.
Download_RetriesOnce ==
  /\ pc = "download"
  /\ \E getOk \in BOOLEAN :
       LET got == DownloadFileFromS3(files[idx].Key, getOk)
       IN  /\ fate' = [fate EXCEPT ![idx].download = IF getOk THEN "ok" ELSE "rejected"]
           /\ calls' = Append(calls, Call("getObject", config.bucketName, files[idx].Key))
           /\ IF got.ok
              THEN /\ data' = got.Body
                   /\ pc' = "decrypt"
                   /\ UNCHANGED <<results, idx>>
              ELSE IF \A c \in 1..Len(calls) : calls[c].op # "getObject"
                                               \/ calls[c].key # files[idx].Key
                   THEN /\ pc' = "download"
                        /\ UNCHANGED <<results, idx, data>>
                   ELSE /\ results' = Append(results, FailureEntry(files[idx], got.error))
                        /\ idx' = idx + 1
                        /\ pc' = "file"
                        /\ UNCHANGED data
  /\ UNCHANGED <<env, bucket, config, pgpPrivateKey, pgpPassphrase, files, response,
                 secretResp, listResp>>
  /\ UNCHANGED <<run, first>>

\* Line 250 (and the catch of lines 267-274).
Download ==
  /\ pc = "download"
  /\ \E getOk \in BOOLEAN :
       LET got == DownloadFileFromS3(files[idx].Key, getOk)
       IN  /\ fate' = [fate EXCEPT ![idx].download = IF getOk THEN "ok" ELSE "rejected"]
           /\ calls' = Append(calls, Call("getObject", config.bucketName, files[idx].Key))
           /\ IF got.ok
              THEN /\ data' = got.Body
                   /\ pc' = "decrypt"
                   /\ UNCHANGED <<results, idx>>
              ELSE /\ results' = Append(results, FailureEntry(files[idx], got.error))
                   /\ idx' = idx + 1
                   /\ pc' = "file"
                   /\ UNCHANGED data
  /\ UNCHANGED <<env, bucket, config, pgpPrivateKey, pgpPassphrase, files, response,
                 secretResp, listResp>>
  /\ UNCHANGED <<run, first>>

\* Decrypt without the per-file catch: a decryption error reaches the outer
\* catch of lines 290-300.
Decrypt_NoPerFileCatch ==
  /\ pc = "decrypt"
  /\ \E outcome \in DecryptOutcomes(pgpPassphrase) :
       LET dec == DecryptFile(data, outcome)
       IN  /\ fate' = [fate EXCEPT ![idx].decrypt = outcome]
           /\ calls' = Append(calls,
                  [Call("decrypt", Undefined, files[idx].Key)
                     EXCEPT !.privateKey = pgpPrivateKey, !.passphrase = pgpPassphrase])
           /\ IF dec.ok
              THEN /\ data' = dec.data
                   /\ pc' = "upload"
                   /\ UNCHANGED response
              ELSE /\ response' = Failure500(dec.error)
                   /\ pc' = "done"
                   /\ data' = NoData
  /\ UNCHANGED <<env, bucket, config, pgpPrivateKey, pgpPassphrase, files, idx,
                 results, secretResp, listResp>>
  /\ UNCHANGED <<run, first>>

\* Line 253 (and the catch of lines 267-274).
Decrypt ==
  /\ pc = "decrypt"
  /\ \E outcome \in DecryptOutcomes(pgpPassphrase) :
       LET dec == DecryptFile(data, outcome)
       IN  /\ fate' = [fate EXCEPT ![idx].decrypt = outcome]
           /\ calls' = Append(calls,
                  [Call("decrypt", Undefined, files[idx].Key)
                     EXCEPT !.privateKey = pgpPrivateKey, !.passphrase = pgpPassphrase])
           /\ IF dec.ok
              THEN /\ data' = dec.data
                   /\ pc' = "upload"
                   /\ UNCHANGED <<results, idx>>
              ELSE /\ results' = Append(results, FailureEntry(files[idx], dec.error))
                   /\ idx' = idx + 1
                   /\ pc' = "file"
                   /\ data' = NoData
  /\ UNCHANGED <<env, bucket, config, pgpPrivateKey, pgpPassphrase, files, response,
                 secretResp, listResp>>
  /\ UNCHANGED <<run, first>>

\* Lines 256-265 (and the catch of lines 267-274).  putOk: whether the
\* storage service would accept the put.
Upload ==
  /\ pc = "upload"
  /\ \E putOk \in BOOLEAN :
       LET up == UploadDecryptedFile(config.bucketName, files[idx].Key, data,
                                     config.decryptedPrefix, putOk)
       IN  /\ fate' = [fate EXCEPT ![idx].put = IF putOk THEN "ok" ELSE "rejected"]
           /\ calls' = IF up.put
                       THEN Append(calls, Call("upload", config.bucketName, up.Key))
                       ELSE calls
           /\ bucket' = IF up.ok
                        THEN { o \in bucket : o.Key # up.Key }
                             \cup { [Key |-> up.Key, Size |-> files[idx].Size,
                                     LastModified |-> "now"] }
                        ELSE bucket
           /\ results' = IF up.ok
                         THEN Append(results, SuccessEntry(files[idx], up))
                         ELSE Append(results, FailureEntry(files[idx], up.error))
  /\ idx' = idx + 1
  /\ pc' = "file"
  /\ data' = NoData
  /\ UNCHANGED <<env, config, pgpPrivateKey, pgpPassphrase, files, response,
                 secretResp, listResp>>
  /\ UNCHANGED <<run, first>>

\* Lines 277-278.
SuccessCount(rs) == Len(SelectSeq(rs, LAMBDA r : ~HasError(r)))
FailureCount(rs) == Len(SelectSeq(rs, LAMBDA r : HasError(r)))

\* Lines 282-288; message holds the three numbers the template string of
\* line 285 interpolates.
Summary(fs, rs) ==
  [statusCode |-> 200,
   message |-> [processed |-> Len(fs), success |-> SuccessCount(rs),
                failures |-> FailureCount(rs)],
   results |-> rs]

\* Lines 277-288: after the loop.
Respond ==
  /\ pc = "file"
  /\ idx > Len(files)
  /\ response' = Summary(files, results)
  /\ pc' = "done"
  /\ UNCHANGED <<env, bucket, config, pgpPrivateKey, pgpPassphrase, files, idx,
                 data, results, calls, secretResp, listResp, fate>>
  /\ UNCHANGED <<run, first>>

Next ==
  \/ Configure
  \/ ResolveSecret
  \/ ListFiles
  \/ NextFile
  \/ Download
  \/ Decrypt
  \/ Upload
  \/ Respond

Spec == Init /\ [][Next]_vars

\* One invocation whose awaited collaborator calls all settle: every await of
\* the handler resumes, so a step that can be taken is eventually taken.
SpecLive == Spec /\ WF_vars(Next)

----------------------------------------------------------------------------
\* The platform invoking the handler again on the bucket the previous
\* invocation left, with the same configuration.

\* Largest number of invocations on one bucket.
MaxRuns == 2

\* The keys the invocation so far handed to s3.upload.
UploadedKeys ==
  { calls[i].key : i \in { j \in 1..Len(calls) : calls[j].op = "upload" } }

BucketKeys == { o.Key : o \in bucket }

\* The source keys whose download and decryption succeeded in the invocation
\* so far, so that uploadDecryptedFile was called for them.
ReachedUpload ==
  { files[p].Key : p \in { q \in 1..Len(fate) : fate[q].put # "unasked" } }

Reinvoke ==
  /\ pc = "done"
  /\ run < MaxRuns
  /\ run' = run + 1
  /\ first' = IF run = 1
              THEN [keys |-> BucketKeys, uploads |-> UploadedKeys,
                    reached |-> ReachedUpload]
              ELSE first
  /\ pc' = "start"
  /\ config' = NoConfig
  /\ pgpPrivateKey' = Undefined
  /\ pgpPassphrase' = Undefined
  /\ files' = <<>>
  /\ idx' = 1
  /\ data' = NoData
  /\ results' = <<>>
  /\ response' = NoResponse
  /\ calls' = <<>>
  /\ secretResp' = NoSecretResponse
  /\ listResp' = NoListResponse
  /\ fate' = <<>>
  /\ UNCHANGED <<env, bucket>>

\* The configurations of the re-run: key from the environment or from the
\* secrets store, source prefix and destination prefix set or unset.
RerunEnvs ==
  { e \in Envs :
      /\ e.bucketName = Undefined
      /\ e.S3_BUCKET_NAME = Undefined
      /\ e.keyName = Undefined
      /\ e.passphrase = EnvPass
      /\ e.privateKey \in {Undefined, EnvKey} }

InitRerun == Init /\ env \in RerunEnvs

NextRerun == Next \/ Reinvoke

SpecRerun == InitRerun /\ [][NextRerun]_vars

----------------------------------------------------------------------------
\* Vocabulary of the properties

\* The handler returned the summary of lines 282-288.
IsSummary == pc = "done" /\ "results" \in DOMAIN response

\* The handler returned the failure response of lines 293-299.
IsFailure == pc = "done" /\ response.statusCode = 500

IsDirectoryMarker(key) == Len(key) > 0 /\ key[Len(key)] = "/"

NonDirectories(fs) == SelectSeq(fs, LAMBDA f : ~IsDirectoryMarker(f.Key))

\* The position in results of the entry of the file at position p.
ResultIndex(p) == Len(NonDirectories(SubSeq(files, 1, p)))

CallsOf(ops) == SelectSeq(calls, LAMBDA c : c.op \in ops)

ObjectOps == {"getObject", "decrypt", "upload"}

\* The collaborators failed the file at position p: download, decryption
\* or put.
FateFailed(p) ==
  \/ fate[p].download = "rejected"
  \/ fate[p].decrypt \in {"decryptKey", "readMessage", "decrypt"}
  \/ fate[p].put = "rejected"

\* Every collaborator call for the file at position p succeeded or, for the
\* put, would succeed.
FateAllOk(p) ==
  fate[p].download = "ok" /\ fate[p].decrypt = "ok" /\ fate[p].put = "ok"

----------------------------------------------------------------------------
\* C1: when the handler responds after the per-object loop, the results hold
\* exactly one entry per listed descriptor whose key does not end with '/',
\* in listing order, and none for a directory marker.
C1_OneResultPerNonDirectory ==
  IsSummary =>
    /\ Len(response.results) = Len(NonDirectories(files))
    /\ \A i \in 1..Len(response.results) :
         response.results[i].originalFile = NonDirectories(files)[i].Key

\* A summary for a listing with a directory marker and a processed file.
C1_Witness ==
  /\ IsSummary
  /\ \E p \in 1..Len(files) : IsDirectoryMarker(files[p].Key)
  /\ Len(response.results) >= 1

\* C2: a failed download, decryption or upload of one object gives that
\* object a failure entry with its own key and its own error, the loop goes
\* on to every later object, and the invocation still ends with the summary:
\* what an object's entry says depends on that object's collaborator
\* outcomes alone.
C2_FailureIsolated ==
  /\ (pc = "done" /\ Len(files) > 0) => IsSummary
  /\ IsSummary =>
       \A p \in 1..Len(files) :
         ~IsDirectoryMarker(files[p].Key) =>
           /\ fate[p].download # "unasked"
           /\ ResultIndex(p) <= Len(results)
           /\ LET r == results[ResultIndex(p)]
              IN  /\ r.originalFile = files[p].Key
                  /\ FateFailed(p) => HasError(r) /\ r.status = "failed"
                  /\ fate[p].download = "rejected" =>
                       r.error = Err("Failed to download file ", files[p].Key,
                                     "getObject rejected")
                  /\ fate[p].decrypt \in {"decryptKey", "readMessage", "decrypt"} =>
                       r.error = Err("Failed to decrypt file: ", <<>>, fate[p].decrypt)

\* The first object failed in decryption, a later one was still downloaded,
\* and the summary was returned.
C2_Witness ==
  /\ IsSummary
  /\ \E p, q \in 1..Len(files) :
       /\ p < q
       /\ fate[p].decrypt \in {"decryptKey", "readMessage", "decrypt"}
       /\ fate[q].download = "ok"

\* The destination key of section 4.3, step 4: the configured destination
\* prefix, then the last '/'-separated segment of the source key without its
\* '.gpg' suffix, or with '.decrypted' appended when it has none.
ExpectedDestination(destPrefix, sourceKey) ==
  LET base == LastSegment(sourceKey)
  IN  destPrefix \o
      (IF Len(base) >= 4 /\ SubSeq(base, Len(base) - 3, Len(base)) = <<".", "g", "p", "g">>
       THEN SubSeq(base, 1, Len(base) - 4)
       ELSE base \o <<".", "d", "e", "c", "r", "y", "p", "t", "e", "d">>)

C4_UploadFailsOnlyOnPutFailure ==
  \A p \in 1..Len(fate) :
    (FateAllOk(p) /\ ResultIndex(p) <= Len(results)) =>
      LET r == results[ResultIndex(p)]
      IN  /\ ~HasError(r)
          /\ r.originalFile = files[p].Key
          /\ r.decryptedFile = ExpectedDestination(config.decryptedPrefix, files[p].Key)
          /\ r.size = files[p].Size

\* The lister returned an empty sequence.
ListingIsEmpty ==
  listResp.kind = "resolved" /\ listResp.hasContents /\ listResp.Contents = <<>>

\* The response carries an empty result sequence.
EmptyResultSequence(r) ==
  \/ "decryptedFiles" \in DOMAIN r /\ r.decryptedFiles = <<>>
  \/ "results" \in DOMAIN r /\ r.results = <<>>

\* C5: on an empty listing the handler returns statusCode 200 with an empty
\* result sequence, and no download, decrypt or upload call was made.
C5_EmptyListing ==
  ListingIsEmpty =>
    /\ pc = "done"
    /\ response.statusCode = 200
    /\ EmptyResultSequence(response)
    /\ CallsOf(ObjectOps) = <<>>

\* The lister returned [] and the handler answered 200.
C5_Witness == ListingIsEmpty /\ pc = "done" /\ response.statusCode = 200

\* The secret payload was fetched and lacks the configured key field.
SecretLacksKeyField ==
  /\ secretResp.kind = "json"
  /\ ~Truthy(SecretField(secretResp.data, KeyNameOrDefault(env.keyName)))

\* Key resolution raised an error.
KeyResolutionFailed ==
  \/ secretResp.kind \in {"rejected", "binary", "notJSON"}
  \/ SecretLacksKeyField

\* C6: without an override key, a secret payload lacking the configured key
\* field ends the invocation with the 500 response and its configuration
\* error, and no listing, download, decrypt or upload call was made; a
\* listing call is only ever made with the key resolved.
C6_MissingKeyFieldAborts ==
  /\ SecretLacksKeyField =>
       /\ IsFailure
       /\ response.message =
            Err("Failed to retrieve PGP private key: ",
                KeyNameOrDefault(env.keyName), "Secret does not contain field")
       /\ CallsOf({"listObjectsV2"} \cup ObjectOps) = <<>>
  /\ \A i \in 1..Len(calls) :
       calls[i].op = "listObjectsV2" =>
         /\ Truthy(pgpPrivateKey)
         /\ \/ Truthy(env.privateKey)
            \/ \E j \in 1..(i - 1) : calls[j].op = "getSecretValue"

\* Without an override key, the fetched payload lacked the key field and the
\* invocation ended with the 500 response.
C6_Witness == SecretLacksKeyField /\ ~Truthy(env.privateKey) /\ IsFailure

\* The listing call raised an error.
ListingFailed ==
  \/ listResp.kind = "rejected"
  \/ listResp.kind = "resolved" /\ ~listResp.hasContents

\* C7: an error of key resolution or of the listing call ends the invocation
\* with the 500 response carrying that error's message, with no download,
\* decrypt or upload call; the 500 response has no other cause, and an
\* invocation that started on an object never ends with it.
C7_AbortOnlyOutsideLoop ==
  /\ KeyResolutionFailed =>
       /\ IsFailure
       /\ response.message.prefix = "Failed to retrieve PGP private key: "
       /\ CallsOf(ObjectOps) = <<>>
  /\ ListingFailed =>
       /\ IsFailure
       /\ response.message.prefix = "Failed to list files from S3: "
       /\ CallsOf(ObjectOps) = <<>>
  /\ response.statusCode = 500 => KeyResolutionFailed \/ ListingFailed
  /\ (\E p \in 1..Len(fate) : fate[p].download # "unasked") =>
       (pc = "done" => response.statusCode = 200)

\* A rejected listing call ended the invocation with the 500 response.
C7_Witness == listResp.kind = "rejected" /\ IsFailure

\* C8: with an override key in the environment no secrets-store call is made
\* and every decryption uses the environment's key and passphrase; without
\* one, exactly one secrets-store call is made.
C8_KeySource ==
  /\ Truthy(env.privateKey) =>
       /\ CallsOf({"getSecretValue"}) = <<>>
       /\ \A i \in 1..Len(calls) :
            calls[i].op = "decrypt" =>
              /\ calls[i].privateKey = env.privateKey
              /\ calls[i].passphrase = env.passphrase
  /\ ~Truthy(env.privateKey) =>
       Len(CallsOf({"getSecretValue"})) = (IF pc \in {"start", "secret"} THEN 0 ELSE 1)

\* Two objects were decrypted with the override key and passphrase.
C8_Witness ==
  /\ env.privateKey = EnvKey
  /\ env.passphrase = EnvPass
  /\ Len(CallsOf({"decrypt"})) >= 2
  /\ pc = "done"

\* Neither bucketName nor S3_BUCKET_NAME is set.
NoBucketConfigured == ~Truthy(env.bucketName) /\ ~Truthy(env.S3_BUCKET_NAME)

StorageOps == {"listObjectsV2", "getObject", "upload"}

\* C9 as stated: with no bucket configured the invocation fails before any
\* listing, download or upload call.
C9_NoBucketIsConfigurationError ==
  NoBucketConfigured =>
    /\ CallsOf(StorageOps) = <<>>
    /\ pc = "done" => IsFailure

\* C9 as amended: with no bucket configured the invocation does not fail for
\* that reason; every storage call goes to the default bucket
\* 'sftp-file-sync-vivien', and the listing call is made once the key is
\* resolved.
C9_DefaultBucket ==
  NoBucketConfigured =>
    /\ \A i \in 1..Len(calls) :
         calls[i].op \in StorageOps =>
           calls[i].bucket =
             <<"s","f","t","p","-","f","i","l","e","-","s","y","n","c","-","v","i","v","i","e","n">>
    /\ (pc = "done" /\ ~KeyResolutionFailed) => Len(CallsOf({"listObjectsV2"})) = 1
    /\ IsFailure => KeyResolutionFailed \/ ListingFailed

\* With no bucket configured, an object of the default bucket was downloaded.
C9_Witness ==
  /\ NoBucketConfigured
  /\ Len(CallsOf({"getObject"})) >= 1
  /\ IsSummary

\* C10: in the summary response the total count reported equals
\* successCount + failureCount and the length of the results sequence.
C10_TotalIsSuccessPlusFailure ==
  IsSummary =>
    /\ response.message.processed = response.message.success + response.message.failures
    /\ response.message.processed = Len(response.results)

\* The storage service answered that no object matches, in either shape.
NoObjectMatches == listResp.kind = "resolved" /\ Len(listResp.Contents) = 0

\* C11: when no object matches, the lister returns an empty sequence and
\* raises no error, whether the response carries an empty Contents or no
\* Contents: the invocation ends with the 200 response of an empty listing.
C11_NoMatchIsEmptyNotError ==
  NoObjectMatches =>
    /\ ListEncryptedFiles(listResp).ok
    /\ ListEncryptedFiles(listResp).files = <<>>
    /\ pc = "done"
    /\ response.statusCode = 200

ListingPosition(key) == CHOOSE p \in 1..Len(files) : files[p].Key = key

\* A download, decryption or upload was started for the file at position p.
Started(p) == fate[p] # NoFate

\* The file at position p was skipped as a directory marker or has its entry
\* in results.
Settled(p) ==
  \/ IsDirectoryMarker(files[p].Key)
  \/ /\ ResultIndex(p) <= Len(results)
     /\ results[ResultIndex(p)].originalFile = files[p].Key

\* C13: objects are processed one at a time in listing order: no download,
\* decryption or upload of the object at position j starts before every
\* object at a position i < j was skipped or got its result, the getObject
\* and decrypt calls follow the listing positions, and results lists the
\* objects in the relative order of the listing.
C13_OneAtATimeInListingOrder ==
  /\ \A j \in 1..Len(fate) :
       Started(j) => \A i \in 1..(j - 1) : Settled(i)
  /\ \A j \in 1..Len(fate) :
       (Started(j) /\ ~Settled(j)) => (idx = j /\ \A k \in (j + 1)..Len(fate) : ~Started(k))
  /\ LET cs == CallsOf({"getObject", "decrypt"})
     IN  \A a, b \in 1..Len(cs) :
           a < b => ListingPosition(cs[a].key) <= ListingPosition(cs[b].key)
  /\ Len(results) <= Len(NonDirectories(files))
  /\ \A i \in 1..Len(results) :
       results[i].originalFile = NonDirectories(files)[i].Key

\* The second of two listed files is being decrypted after the download of
\* the first failed and gave it its entry.
C13_Witness ==
  /\ pc = "decrypt"
  /\ idx = 2
  /\ ~IsDirectoryMarker(files[1].Key)
  /\ fate[1].download = "rejected"
  /\ Len(results) = 1

\* The calls of the log that precede the one at position b and concern the
\* same source key.
EarlierCalls(op, b) ==
  { a \in 1..(b - 1) : calls[a].op = op /\ calls[a].key = calls[b].key }

\* C14: for each object the steps run in the order download, decrypt,
\* upload, each only after the one before it succeeded: no decryption after
\* a failed download, no upload after a failed download or decryption, and a
\* success entry only for an object whose s3.upload call returned.
C14_StepsInOrder ==
  /\ \A p \in 1..Len(fate) :
       /\ fate[p].decrypt # "unasked" => fate[p].download = "ok"
       /\ fate[p].put # "unasked" => fate[p].decrypt = "ok"
  /\ \A b \in 1..Len(calls) :
       /\ calls[b].op = "decrypt" => EarlierCalls("getObject", b) # {}
       /\ calls[b].op = "getObject" => EarlierCalls("decrypt", b) = {}
  /\ \A i \in 1..Len(results) :
       ~HasError(results[i]) =>
         /\ FateAllOk(ListingPosition(results[i].originalFile))
         /\ \E b \in 1..Len(calls) :
              calls[b].op = "upload" /\ calls[b].key = results[i].decryptedFile

\* A summary after one object failed in the download and another in the
\* decryption.
C14_Witness ==
  /\ IsSummary
  /\ \E p, q \in 1..Len(fate) :
       /\ fate[p].download = "rejected"
       /\ fate[q].download = "ok"
       /\ fate[q].decrypt \in {"decryptKey", "readMessage", "decrypt"}

\* The phases of one invocation: configuration and key resolution, listing,
\* the per-object loop, the response.
Phase(p) ==
  CASE p \in {"start", "secret"} -> 1
    [] p = "list" -> 2
    [] p \in {"file", "download", "decrypt", "upload"} -> 3
    [] p = "done" -> 4

\* No collaborator is asked the same thing twice: one getSecretValue, one
\* listObjectsV2, one getObject and one decrypt per key, one uploadDecryptedFile
\* per file.
NoRetry ==
  /\ \A a, b \in 1..Len(calls) :
       (a < b /\ calls[a].op = calls[b].op /\ calls[a].op # "upload")
         => calls[a].key # calls[b].key
  /\ Len(CallsOf({"getSecretValue"})) <= 1
  /\ Len(CallsOf({"listObjectsV2"})) <= 1
  /\ Len(CallsOf({"upload"})) <= Cardinality(ReachedUpload)

\* A step never goes back to an earlier phase or an earlier object, and a
\* response once produced is final.
Forward ==
  /\ Phase(pc') >= Phase(pc)
  /\ (Phase(pc) = 3 /\ Phase(pc') = 3) => idx' >= idx
  /\ pc = "done" => (pc' = "done" /\ response' = response)

\* C15: when every collaborator call returns or fails, every invocation
\* eventually produces one response, with statusCode 200 or 500, its phases
\* only ever move forward, no collaborator call is retried, and the only
\* way past the per-object loop is the empty listing.
C15_RespondsExactlyOnce ==
  /\ <>(pc = "done")
  /\ [](pc = "done" <=> response # NoResponse)
  /\ [](pc = "done" => response.statusCode \in {200, 500})
  /\ [][Forward]_vars
  /\ []NoRetry
  /\ []((pc = "done" /\ response.statusCode = 200 /\ ~IsSummary) => ListingIsEmpty)

\* The summary was returned after the key came from the secret store, the
\* listing, and a download, a decryption and an upload step.
C15_Witness ==
  /\ IsSummary
  /\ Len(CallsOf({"getSecretValue"})) = 1
  /\ Len(CallsOf({"listObjectsV2"})) = 1
  /\ \E p \in 1..Len(fate) : fate[p].put # "unasked"
  /\ \E p \in 1..Len(fate) : fate[p].download = "rejected"

\* C16: two distinct non-directory source keys of one invocation never get
\* the same destination: the file names that lines 107-108 derive for two
\* objects handed to uploadDecryptedFile differ, so that with one
\* destination prefix their destination keys differ, also for source keys
\* with the same final path segment under different sub-prefixes.
C16_DistinctDestinations ==
  \A p, q \in 1..Len(fate) :
    (p # q /\ fate[p].put # "unasked" /\ fate[q].put # "unasked") =>
      DecryptedFileName(files[p].Key) # DecryptedFileName(files[q].Key)

\* The upload of the file at position p completed: s3.upload was called
\* with its destination key and the storage service accepted the put.
UploadCompleted(p) ==
  /\ fate[p].put = "ok"
  /\ \E b \in 1..Len(calls) :
       /\ calls[b].op = "upload"
       /\ calls[b].key = config.decryptedPrefix \o DecryptedFileName(files[p].Key)

\* The processing of the file at position p raised an error: in the
\* download, in the decryption, or in uploadDecryptedFile (a rejected put, or
\* an error before s3.upload is called).
Raised(p) ==
  \/ fate[p].download = "rejected"
  \/ fate[p].decrypt \in {"decryptKey", "readMessage", "decrypt"}
  \/ fate[p].put # "unasked" /\ ~UploadCompleted(p)

\* C17: in the summary every entry of results is counted in exactly one of
\* successCount and failureCount; failureCount is the number of objects
\* whose processing raised an error, each with an entry of status 'failed'
\* and a non-empty error message; successCount is the number of objects
\* whose upload completed.
C17_CountsPartitionResults ==
  IsSummary =>
    /\ response.message.success + response.message.failures = Len(response.results)
    /\ response.message.failures = Cardinality({ p \in 1..Len(fate) : Raised(p) })
    /\ response.message.success = Cardinality({ p \in 1..Len(fate) : UploadCompleted(p) })
    /\ \A p \in 1..Len(fate) :
         Raised(p) =>
           LET r == response.results[ResultIndex(p)]
           IN  /\ r.originalFile = files[p].Key
               /\ "error" \in DOMAIN r
               /\ r.error # NoError
               /\ r.status = "failed"
    /\ \A i \in 1..Len(response.results) :
         "error" \in DOMAIN response.results[i] =>
           Raised(ListingPosition(response.results[i].originalFile))

\* A summary counting two failures of different steps: a rejected download
\* and an error of uploadDecryptedFile.
C17_Witness ==
  /\ IsSummary
  /\ response.message.failures = 2
  /\ \E p, q \in 1..Len(fate) :
       fate[p].download = "rejected" /\ fate[q].put # "unasked"

====
